---- MODULE Spec2Model ----
(***************************************************************************)
(* Model of the two election dashboards of this repository:                *)
(*   el-google-spreadsheet.py  (app = "gs")                                *)
(*   el-graph.py               (app = "graph")                             *)
(* Each script is a straight-line pipeline that the UI runtime executes    *)
(* from the top on every run:                                              *)
(*   load -> validate -> normalize -> sidebar -> filter -> render ->       *)
(*   download -> footer.                                                   *)
(* Strings are TLA+ strings; the python string methods the scripts use     *)
(* (strip, split, in, endswith, sorted) are operators on them.             *)
(***************************************************************************)
EXTENDS Integers, Sequences, FiniteSets, TLC

(***************************************************************************)
(* Python values                                                           *)
(***************************************************************************)
\* None / NaN / NaT for optional values: the empty tuple; Some(v) otherwise.
None == <<>>
Some(v) == <<v>>

\* A spreadsheet cell: blank (NaN), text, or an integer number.
NaN == [k |-> "nan", s |-> "", n |-> 0]
Str(t) == [k |-> "str", s |-> t, n |-> 0]
Num(i) == [k |-> "int", s |-> "", n |-> i]

\* The characters that occur in the modelled strings, in code-point order.
Ascii == " #&+-./0123456789:=?ABCDEFGHIJKLMNOPQRSTUVWXYZ_abcdefghijklmnopqrstuvwxyz"

Char(s, i) == SubSeq(s, i, i)

\* python: ord(c), up to the order of the code points
CodePoint == [c \in {Char(Ascii, i) : i \in 1..Len(Ascii)} |->
                CHOOSE i \in 1..Len(Ascii) : Char(Ascii, i) = c]

Ord(c) == CodePoint[c]

\* python: a < b on str (code-point lexicographic order)
RECURSIVE StrLess(_, _)
StrLess(a, b) ==
    IF Len(b) = 0 THEN FALSE
    ELSE IF Len(a) = 0 THEN TRUE
    ELSE IF Head(a) = Head(b) THEN StrLess(Tail(a), Tail(b))
    ELSE Ord(Head(a)) < Ord(Head(b))

\* python: sub in s
Contains(s, sub) ==
    \E i \in 1..(Len(s) - Len(sub) + 1) : SubSeq(s, i, i + Len(sub) - 1) = sub

\* python: s.endswith(suf)
EndsWith(s, suf) ==
    /\ Len(s) >= Len(suf)
    /\ SubSeq(s, Len(s) - Len(suf) + 1, Len(s)) = suf

\* python: s.strip()
RECURSIVE Strip(_)
Strip(s) ==
    IF Len(s) = 0 THEN s
    ELSE IF Head(s) = " " THEN Strip(Tail(s))
    ELSE IF Char(s, Len(s)) = " " THEN Strip(SubSeq(s, 1, Len(s) - 1))
    ELSE s

\* python: s.split(sep)  (sep non-empty; leftmost, non-overlapping)
RECURSIVE Split(_, _)
Split(s, sep) ==
    LET at == {j \in 1..(Len(s) - Len(sep) + 1) : SubSeq(s, j, j + Len(sep) - 1) = sep} IN
    IF at = {} THEN <<s>>
    ELSE LET i == CHOOSE j \in at : \A h \in at : j <= h
         IN <<SubSeq(s, 1, i - 1)>> \o Split(SubSeq(s, i + Len(sep), Len(s)), sep)

Last(q) == q[Len(q)]

Range(q) == {q[i] : i \in 1..Len(q)}

(***************************************************************************)
(* el-google-spreadsheet.py: load_google_sheet_as_df, URL part             *)
(***************************************************************************)
GoogleHost == "docs.google.com"
SheetMarker == "/spreadsheets/d/"
ExportBase == "https://docs.google.com/spreadsheets/d/"

\* lines 60-81: the CSV export URL built from a stripped URL that contains
\* "docs.google.com".
CsvUrlFallback(url) ==
    IF EndsWith(url, "/") THEN url \o "export?format=csv"
    ELSE url \o "/export?format=csv"

\* (variant: the tab id is never looked for)
CsvUrlNoGid(url) ==
    IF Contains(url, SheetMarker)
    THEN Some(ExportBase \o Split(Split(url, SheetMarker)[2], "/")[1] \o "/export?format=csv")
    ELSE Some(CsvUrlFallback(url))

CsvUrlOf(url) ==
    IF Contains(url, SheetMarker)
    THEN LET parts == Split(url, SheetMarker) IN
         IF Len(parts) >= 2
         THEN LET tail == parts[2]
                  sid == Split(tail, "/")[1]
                  gid == IF Contains(url, "gid=")
                         THEN Some(Split(Last(Split(url, "gid=")), "&")[1])
                         ELSE None
              IN IF gid # None /\ gid[1] # ""
                 THEN Some(ExportBase \o sid \o "/export?format=csv&gid=" \o gid[1])
                 ELSE Some(ExportBase \o sid \o "/export?format=csv")
         ELSE None
    ELSE Some(CsvUrlFallback(url))

\* lines 47-85: what load_google_sheet_as_df does before the fetch.
\*   step = "blank"      return None without a message          (48-49)
\*   step = "not_google" sidebar error, return None              (51-53)
\*   step = "no_csv"     sidebar error, return None              (83-85)
\*   step = "fetch"      pd.read_csv(csv_url) is attempted       (88)
ResolveLink(raw) ==
    LET url == Strip(raw) IN
    IF url = "" THEN [step |-> "blank", csv_url |-> None]
    ELSE IF ~Contains(url, GoogleHost) THEN [step |-> "not_google", csv_url |-> None]
    ELSE LET c == CsvUrlOf(url) IN
         IF c = None THEN [step |-> "no_csv", csv_url |-> None]
         ELSE [step |-> "fetch", csv_url |-> c]

(***************************************************************************)
(* Validation (gs 121-126, graph 34-40)                                    *)
(***************************************************************************)
expected_cols == {"Team Number", "Name", "Mobile", "Date", "Time",
                  "Male", "Female", "Transgender", "Constitution"}

\* (variant: only one absent column is reported)
MissingColsAny(cols) ==
    IF expected_cols \subseteq cols THEN {}
    ELSE {CHOOSE c \in expected_cols : c \notin cols}

\* missing = expected_cols - set(df.columns)
MissingCols(cols) == expected_cols \ cols

(***************************************************************************)
(* Normalization (gs 128-146, graph 42-54)                                 *)
(***************************************************************************)
Digits == "0123456789"

IsDigit(c) == c \in {"0", "1", "2", "3", "4", "5", "6", "7", "8", "9"}

\* python: int(c) for one digit
DigitVal(c) ==
    CASE c = "0" -> 0 [] c = "1" -> 1 [] c = "2" -> 2 [] c = "3" -> 3 [] c = "4" -> 4
      [] c = "5" -> 5 [] c = "6" -> 6 [] c = "7" -> 7 [] c = "8" -> 8 [] c = "9" -> 9

AllDigits(s) == \A i \in 1..Len(s) : IsDigit(Char(s, i))

RECURSIVE ParseNat(_)
ParseNat(s) ==
    IF Len(s) = 0 THEN 0
    ELSE 10 * ParseNat(SubSeq(s, 1, Len(s) - 1)) + DigitVal(Char(s, Len(s)))

\* The number a text cell denotes, or None.  The grammar modelled is
\*   [ws] [+|-] digits [ "." digits ] [ws]
\* (the decimal literals pd.to_numeric accepts; exponents, "inf" and "nan"
\* spellings are not generated).  A number is [sign, mag, frac]: sign * mag
\* is its integer part, frac its fractional digits.
ParseNumber(t) ==
    LET u == Strip(t)
        signed == Len(u) > 0 /\ (Head(u) = "-" \/ Head(u) = "+")
        sign == IF Len(u) > 0 /\ Head(u) = "-" THEN -1 ELSE 1
        body == IF signed THEN Tail(u) ELSE u
        dot == Split(body, ".")
    IN IF Len(dot) = 1 /\ Len(body) > 0 /\ AllDigits(body)
       THEN Some([sign |-> sign, mag |-> ParseNat(body), frac |-> ""])
       ELSE IF Len(dot) = 2 /\ Len(dot[1]) > 0 /\ AllDigits(dot[1]) /\ AllDigits(dot[2])
       THEN Some([sign |-> sign, mag |-> ParseNat(dot[1]), frac |-> dot[2]])
       ELSE None

\* pd.to_numeric(cell, errors="coerce")
ToNumeric(cell) ==
    CASE cell.k = "int" -> Some([sign |-> IF cell.n < 0 THEN -1 ELSE 1,
                                 mag |-> IF cell.n < 0 THEN -cell.n ELSE cell.n,
                                 frac |-> ""])
      [] cell.k = "str" -> ParseNumber(cell.s)
      [] OTHER -> None

\* .fillna(0).astype(int): NaN becomes 0, a float is truncated toward zero.
CoerceCount(cell) ==
    LET v == ToNumeric(cell) IN
    IF v = None THEN 0 ELSE v[1].sign * v[1].mag

\* df[["Male","Female","Transgender"]].sum(axis=1)
RowTotal(m, f, t) == m + f + t

\* Calendar dates are integers yyyymmdd.
DaysIn(y, m) ==
    IF m \in {4, 6, 9, 11} THEN 30
    ELSE IF m = 2 THEN (IF y % 4 = 0 /\ (y % 100 # 0 \/ y % 400 = 0) THEN 29 ELSE 28)
    ELSE 31

MkDate(ys, ms, ds) ==
    IF /\ Len(ys) = 4 /\ Len(ms) \in 1..2 /\ Len(ds) \in 1..2
       /\ AllDigits(ys) /\ AllDigits(ms) /\ AllDigits(ds)
    THEN LET y == ParseNat(ys)
             m == ParseNat(ms)
             d == ParseNat(ds)
         IN IF m \in 1..12 /\ d \in 1..DaysIn(y, m)
            THEN Some(y * 10000 + m * 100 + d)
            ELSE None
    ELSE None

\* pd.to_datetime(cell, errors="coerce").dt.date for the cell contents
\* generated here: a blank, a date-typed cell, or text.  Text parses when it
\* is year-month-day separated by "-" or "/"; anything else becomes NaT.
ToDate(cell) ==
    CASE cell.k = "date" -> Some(cell.n)
      [] cell.k = "str" ->
            LET u == Strip(cell.s)
                a == Split(u, "-")
                b == Split(u, "/")
            IN IF Len(a) = 3 THEN MkDate(a[1], a[2], a[3])
               ELSE IF Len(b) = 3 THEN MkDate(b[1], b[2], b[3])
               ELSE None
      [] OTHER -> None

\* python: str(n) for n >= 0, left-padded with zeros to the width w
RECURSIVE Pad(_, _)
Pad(n, w) ==
    IF w = 0 THEN ""
    ELSE Pad(n \div 10, w - 1) \o Char(Digits, (n % 10) + 1)

RECURSIVE NatStr(_)
NatStr(n) == IF n < 10 THEN Char(Digits, n + 1) ELSE NatStr(n \div 10) \o Char(Digits, (n % 10) + 1)

IntStr(i) == IF i < 0 THEN "-" \o NatStr(-i) ELSE NatStr(i)

\* str(date) is ISO yyyy-mm-dd; a null date prints as "NaT"
DateStr(d) ==
    IF d = None THEN "NaT"
    ELSE Pad(d[1] \div 10000, 4) \o "-" \o Pad((d[1] \div 100) % 100, 2) \o "-" \o Pad(d[1] % 100, 2)

\* df["Time"].astype(str).str.strip()
TimeStr(cell) ==
    CASE cell.k = "nan" -> "nan"
      [] cell.k = "int" -> Strip(IntStr(cell.n))
      [] OTHER -> Strip(cell.s)

time_order == <<"09:00", "11:00", "13:00", "15:00", "17:00", "18:00">>

\* [x for x in q if x in S]
RECURSIVE SelectIn(_, _)
SelectIn(q, S) ==
    IF Len(q) = 0 THEN <<>>
    ELSE (IF Head(q) \in S THEN <<Head(q)>> ELSE <<>>) \o SelectIn(Tail(q), S)

\* sorted(S) for a set of strings
RECURSIVE SortedStrs(_)
SortedStrs(S) ==
    IF S = {} THEN <<>>
    ELSE LET m == CHOOSE a \in S : \A b \in S \ {a} : StrLess(a, b)
         IN <<m>> \o SortedStrs(S \ {m})

\* gs 140-145: found_times; graph 53-54: the categories are time_order itself
FoundTimes(app_, times) ==
    IF app_ = "graph" THEN time_order
    ELSE LET found == SelectIn(time_order, times) IN
         IF Len(found) = 0 THEN SortedStrs(times) ELSE found

\* pd.Categorical(values, categories=cats): a value outside cats becomes NaN
AsCategory(t, cats) == IF t \in Range(cats) THEN Some(t) ELSE None

\* One raw row after lines 129-137 (the categorical conversion comes after).
CleanRow(r) ==
    LET m == CoerceCount(r.Male)
        f == CoerceCount(r.Female)
        t == CoerceCount(r.Transgender)
    IN [TeamNumber |-> r.TeamNumber, Name |-> r.Name, Mobile |-> r.Mobile,
        Date |-> ToDate(r.Date), Time |-> TimeStr(r.Time),
        Male |-> m, Female |-> f, Transgender |-> t,
        Constitution |-> r.Constitution, Total |-> RowTotal(m, f, t)]

\* The set of stripped time strings of the raw rows: df["Time"].unique()
TimesOf(rows) == {TimeStr(rows[i].Time) : i \in 1..Len(rows)}

\* The cleaned table: every row cleaned, Time made categorical.
Normalized(app_, rows) ==
    LET cats == FoundTimes(app_, TimesOf(rows)) IN
    [i \in 1..Len(rows) |->
        [CleanRow(rows[i]) EXCEPT !.Time = AsCategory(@, cats)]]

(***************************************************************************)
(* Sidebar option lists (gs 148-169, graph 56-77)                          *)
(***************************************************************************)
All == Str("All")

\* python: a < b for two cells of the same kind (the generated columns are
\* homogeneous: team numbers are integers, constituencies are text)
CellLess(a, b) ==
    CASE a.k = "int" /\ b.k = "int" -> a.n < b.n
      [] a.k = "str" /\ b.k = "str" -> StrLess(a.s, b.s)

\* sorted(S) for a set of cells
RECURSIVE SortedCells(_)
SortedCells(S) ==
    IF S = {} THEN <<>>
    ELSE LET m == CHOOSE a \in S : \A b \in S \ {a} : CellLess(a, b)
         IN <<m>> \o SortedCells(S \ {m})

\* df[col].dropna().unique()
TeamsOf(t) == {t[i].TeamNumber : i \in 1..Len(t)} \ {NaN}

ConstsOf(t) == {t[i].Constitution : i \in 1..Len(t)} \ {NaN}

\* (variant: the dates are listed without dropna())
DatesOfKeepNull(t) == {DateStr(t[i].Date) : i \in 1..Len(t)}

\* df["Date"].dropna().astype(str).unique()
DatesOf(t) == {DateStr(t[i].Date) : i \in {j \in 1..Len(t) : t[j].Date # None}}

team_opts(t) == <<All>> \o SortedCells(TeamsOf(t))

const_opts(t) == <<All>> \o SortedCells(ConstsOf(t))

date_opts(t) == <<"All">> \o SortedStrs(DatesOf(t))

\* gs 160: ["All"] + found_times;
\* graph 68: ["All"] + [t for t in time_order if t in df["Time"].cat.categories]
time_opts(app_, cats) ==
    IF app_ = "graph" THEN <<"All">> \o SelectIn(time_order, Range(cats))
    ELSE <<"All">> \o cats

SetMin(S) == CHOOSE a \in S : \A b \in S : a <= b

SetMax(S) == CHOOSE a \in S : \A b \in S : a >= b

ColVals(t, col) == {t[i][col] : i \in 1..Len(t)}

\* (int(df[col].min()), int(df[col].max())) and the slider's default value
SliderBounds(t, col) == <<SetMin(ColVals(t, col)), SetMax(ColVals(t, col))>>

\* The ranges a slider can return.  Only the position of an end point
\* relative to the column's values changes what the filter keeps, so the
\* end points are drawn from the values of the column.
SliderChoices(t, col) ==
    {<<lo, hi>> \in ColVals(t, col) \X ColVals(t, col) : lo <= hi}

\* What the widgets return on a first run: index 0 of each selectbox and the
\* full range of each slider.
DefaultSel(o) ==
    [team |-> o.team[1], const |-> o.const[1], date |-> o.date[1], time |-> o.time[1],
     male |-> o.male, female |-> o.female, trans |-> o.trans]

\* The number of widgets the user moved away from the default.
Moved(s, o) ==
    Cardinality({w \in {"team", "const", "date", "time", "male", "female", "trans"} :
                    s[w] # DefaultSel(o)[w]})

(***************************************************************************)
(* Apply filters (gs 175-190, graph 79-94)                                 *)
(***************************************************************************)
\* df[mask]: the rows at the positions in I, in order
RECURSIVE RowsFrom(_, _, _)
RowsFrom(q, I, i) ==
    IF i > Len(q) THEN <<>>
    ELSE (IF i \in I THEN <<q[i]>> ELSE <<>>) \o RowsFrom(q, I, i + 1)

RowsAt(q, I) == RowsFrom(q, I, 1)

\* (variant: the end points are excluded)
BetweenExclusive(v, rng) == rng[1] < v /\ v < rng[2]

\* series.between(lo, hi): inclusive on both ends
Between(v, rng) == rng[1] <= v /\ v <= rng[2]

\* The four selectbox steps, each narrowing the previous frame, then the
\* three range masks applied together.
ByTeam(t, sel_) ==
    IF sel_.team # All THEN RowsAt(t, {i \in 1..Len(t) : t[i].TeamNumber = sel_.team}) ELSE t

ByConst(t, sel_) ==
    IF sel_.const # All THEN RowsAt(t, {i \in 1..Len(t) : t[i].Constitution = sel_.const}) ELSE t

ByDate(t, sel_) ==
    IF sel_.date # "All" THEN RowsAt(t, {i \in 1..Len(t) : DateStr(t[i].Date) = sel_.date}) ELSE t

ByTime(t, sel_) ==
    IF sel_.time # "All" THEN RowsAt(t, {i \in 1..Len(t) : t[i].Time = Some(sel_.time)}) ELSE t

ByRanges(t, sel_) ==
    RowsAt(t, {i \in 1..Len(t) : /\ Between(t[i].Male, sel_.male)
                                 /\ Between(t[i].Female, sel_.female)
                                 /\ Between(t[i].Transgender, sel_.trans)})

Filtered(t, sel_) == ByRanges(ByTime(ByDate(ByConst(ByTeam(t, sel_), sel_), sel_), sel_), sel_)

(***************************************************************************)
(* 5 PM -> 6 PM growth (gs 279-285, graph 196-202)                         *)
(***************************************************************************)
RECURSIVE SumTotal(_)
SumTotal(q) == IF Len(q) = 0 THEN 0 ELSE Head(q).Total + SumTotal(Tail(q))

\* fdf[fdf["Time"] == slot].groupby("Constitution")["Total"].sum():
\* the keys in sorted order (blank keys are dropped) and their sums
SlotRows(t, slot) == RowsAt(t, {i \in 1..Len(t) : t[i].Time = Some(slot)})

SlotKeys(t, slot) == SortedCells(ConstsOf(SlotRows(t, slot)))

SlotSum(t, slot, c) ==
    LET g == SlotRows(t, slot) IN
    SumTotal(RowsAt(g, {i \in 1..Len(g) : g[i].Constitution = c}))

\* pd.concat([t5, t6], axis=1).fillna(0): the keys of t5, then those only in t6
RECURSIVE Without(_, _)
Without(q, S) ==
    IF Len(q) = 0 THEN <<>>
    ELSE (IF Head(q) \in S THEN <<>> ELSE <<Head(q)>>) \o Without(Tail(q), S)

GrowthRow(t, c) ==
    [Constitution |-> c, T_17 |-> SlotSum(t, "17:00", c), T_18 |-> SlotSum(t, "18:00", c),
     Growth |-> SlotSum(t, "18:00", c) - SlotSum(t, "17:00", c)]

GrowthUnsorted(t) ==
    LET k5 == SlotKeys(t, "17:00")
        k6 == SlotKeys(t, "18:00")
        keys == k5 \o Without(k6, Range(k5))
    IN [i \in 1..Len(keys) |-> GrowthRow(t, keys[i])]

\* sort_values("Growth", ascending=False); equal keys keep their order
RECURSIVE InsertDesc(_, _)
InsertDesc(q, e) ==
    IF Len(q) = 0 THEN <<e>>
    ELSE IF Head(q).Growth >= e.Growth THEN <<Head(q)>> \o InsertDesc(Tail(q), e)
    ELSE <<e>> \o q

\* (variant: the table is left in key order)
KeepOrder(q) == q

RECURSIVE SortByGrowthDesc(_)
SortByGrowthDesc(q) ==
    IF Len(q) = 0 THEN <<>>
    ELSE InsertDesc(SortByGrowthDesc(SubSeq(q, 1, Len(q) - 1)), Last(q))

GrowthTable(t) == SortByGrowthDesc(GrowthUnsorted(t))

(***************************************************************************)
(* State                                                                   *)
(***************************************************************************)
VARIABLES
    app,              \* which script runs: "gs" or "graph"
    auto_refresh,     \* gs 29: the auto-refresh checkbox
    uploaded_file,    \* TRUE when the file uploader holds a file
    google_sheet_url, \* gs 39: the pasted link ("" in el-graph.py, which has none)
    default_exists,   \* os.path.exists(DEFAULT_PATH)
    source_data,      \* the table the sources hold: [cols, rows]
    pc,               \* position of the run in the script
    df,               \* None, or Some([cols, rows])
    reads,            \* the sources a read was attempted on, in order
    csv_url,          \* the export URL handed to pd.read_csv, or None
    ui,               \* the messages shown to the user, in order
    missing,          \* the set shown by the missing-columns error
    found_times,      \* the categories of df["Time"], or None
    opts,             \* the option lists and slider bounds, or None
    sel,              \* the values the filter widgets returned, or None
    fdf,              \* the filtered rows, or None
    growth,           \* the 5 PM -> 6 PM growth table, or None
    offered           \* the download buttons shown

inputs == <<app, uploaded_file, google_sheet_url, default_exists, source_data>>

locals == <<df, reads, csv_url, ui, missing, found_times, opts, sel, fdf, growth, offered>>

vars == <<app, auto_refresh, uploaded_file, google_sheet_url, default_exists, source_data,
          pc, df, reads, csv_url, ui, missing, found_times, opts, sel, fdf, growth, offered>>

\* The state of a run at the top of the script (gs 96: df = None).
RunStart ==
    /\ pc = "top"
    /\ df = None /\ reads = <<>> /\ csv_url = None /\ ui = <<>> /\ missing = {}
    /\ found_times = None /\ opts = None /\ sel = None /\ fdf = None
    /\ growth = None /\ offered = {}

\* st.experimental_rerun() / a widget interaction: the script starts over.
Restart ==
    /\ pc' = "top"
    /\ df' = None /\ reads' = <<>> /\ csv_url' = None /\ ui' = <<>> /\ missing' = {}
    /\ found_times' = None /\ opts' = None /\ sel' = None /\ fdf' = None
    /\ growth' = None /\ offered' = {}

(***************************************************************************)
(* Input tables                                                            *)
(***************************************************************************)
RawRow(team, const, date, time, m, f, t) ==
    [TeamNumber |-> team, Name |-> Str("Asha"), Mobile |-> Num(98), Date |-> date,
     Time |-> time, Male |-> m, Female |-> f, Transgender |-> t, Constitution |-> const]

Table(cols, rows) == [cols |-> cols, rows |-> rows]

\* All sequences over S of length at most n.
SeqsUpTo(S, n) == UNION {[1..k -> S] : k \in 0..n}

SampleRows ==
    << RawRow(Num(1), Str("X"), Str("2025-11-25"), Str("17:00"), Num(2), Num(1), Num(0)),
       RawRow(Num(2), Str("Y"), Str("2025/11/26"), Str(" 18:00"), Str("3"), NaN, Num(1)) >>

OneRow == <<SampleRows[1]>>

\* A table that passes validation, one that fails it, and one without rows.
CoreTables ==
    { Table(expected_cols, OneRow),
      Table(expected_cols \ {"Mobile"}, OneRow),
      Table(expected_cols \cup {"Remarks"}, <<>>) }

CoreUrls ==
    { "", " ",
      "https://docs.google.com/spreadsheets/d/ABC123/edit#gid=55",
      "https://docs.google.com/foo",
      "https://example.com/sheet" }

\* Every column set: any subset of the required columns, with or without an
\* extra column.
SchemaTables ==
    {Table(c \cup e, OneRow) : c \in SUBSET expected_cols, e \in {{}, {"Remarks"}}}

\* Bounds of the generated inputs.
MaxRows == 3
MaxFilterRows == 2
MaxTail == 3
MaxMoved == 2

RECURSIVE Concat(_)
Concat(q) == IF Len(q) = 0 THEN "" ELSE Head(q) \o Concat(Tail(q))

\* Pasted links: [space] host [marker] [id] tail, the tail made of at most
\* MaxTail fragments.
TailFrags == {"/", "/edit", "#gid=", "55", "&", "/spreadsheets/d/Z9"}

LinkUrls ==
    { w \o h \o m \o i \o Concat(t) :
        w \in {"", " "},
        h \in {"https://docs.google.com", "https://example.com", ""},
        m \in {"/spreadsheets/d/", "/d/"},
        i \in {"ABC123", ""},
        t \in SeqsUpTo(TailFrags, MaxTail) }

\* Count cells: blank, text, numbers, and numbers given as text.
CountCells ==
    { NaN, Str(""), Str("abc"), Str("1.2.3"), Num(0), Num(3), Num(-2),
      Str("-5"), Str(" 7 "), Str("+4"), Str("2.75"), Str("-0.5") }

NormTables ==
    { Table(expected_cols,
            <<RawRow(Num(1), Str("X"), Str("2025-11-25"), Str("17:00"), m, f, t)>>) :
        m \in CountCells, f \in {NaN, Num(1), Str("-1")}, t \in {Num(0), Num(2), Str("x")} }

\* Time cells: canonical slots (one padded with blanks), other text, blank.
TimeCells ==
    { Str("09:00"), Str("13:00"), Str(" 18:00 "), Str("morning"), Str("evening"), NaN }

TimeTables ==
    { Table(expected_cols,
            [i \in 1..Len(q) |-> RawRow(NaN, Str("X"), NaN, q[i], Num(1), Num(0), Num(0))]) :
        q \in SeqsUpTo(TimeCells, MaxRows) }

\* Rows that differ in every filtered column.
FilterRows ==
    { RawRow(Num(1), Str("X"), Str("2025-11-25"), Str("17:00"), Num(2), Num(1), Num(0)),
      RawRow(Num(2), Str("Y"), Str("2025/11/26"), Str("18:00"), Str("3"), NaN, Num(1)),
      RawRow(NaN, NaN, Str("not a date"), Str("noon"), Num(2), Num(1), Num(0)) }

FilterTables == {Table(expected_cols, q) : q \in SeqsUpTo(FilterRows, MaxFilterRows)}

\* Rows of two constituencies (and one without) in the slots 17:00, 18:00
\* and an earlier one.
GrowthRows ==
    { RawRow(NaN, Str("X"), NaN, Str("17:00"), Num(10), Num(0), Num(0)),
      RawRow(NaN, Str("Y"), NaN, Str("17:00"), Num(5), Num(0), Num(0)),
      RawRow(NaN, Str("Y"), NaN, Str("18:00"), Num(12), Num(0), Num(0)),
      RawRow(NaN, Str("X"), NaN, Str("18:00"), Num(5), Num(0), Num(0)),
      RawRow(NaN, NaN, NaN, Str("17:00"), Num(5), Num(0), Num(0)),
      RawRow(NaN, Str("Y"), NaN, Str("09:00"), Num(5), Num(0), Num(0)) }

GrowthTables == {Table(expected_cols, q) : q \in SeqsUpTo(GrowthRows, MaxRows)}

\* Date cells no date can be read from: text that is no date, a day that
\* does not exist, a blank.
BadDateCells == {Str("not a date"), Str("2025-02-30"), NaN}

\* Rows with and without a readable date, all of one constituency, that
\* differ in team, time slot and male count.
DateRows ==
    { RawRow(Num(1), Str("X"), Str("2025-11-25"), Str("17:00"), Num(1), Num(0), Num(0)),
      RawRow(Num(1), Str("X"), Str("2025/11/26"), Str("18:00"), Str("2"), Num(0), Num(0)),
      RawRow(Num(2), Str("X"), Str("not a date"), Str("17:00"), Str(" 2 "), NaN, Num(0)),
      RawRow(Num(1), Str("X"), Str("2025-02-30"), Str("18:00"), Num(1), Num(0), Num(0)),
      RawRow(Num(2), Str("X"), NaN, Str("17:00"), Num(1), Num(0), Num(0)) }

DateTables == {Table(expected_cols, q) : q \in SeqsUpTo(DateRows, MaxFilterRows)}

InitFrom(urls, tables, up, def, ar) ==
    /\ app \in {"gs", "graph"}
    /\ uploaded_file \in up
    /\ default_exists \in def
    /\ auto_refresh \in (IF app = "gs" THEN ar ELSE {FALSE})
    /\ google_sheet_url \in (IF app = "gs" THEN urls ELSE {""})
    /\ source_data \in tables
    /\ RunStart

\* Every combination of the three sources, over a few tables.
InitCore == InitFrom(CoreUrls, CoreTables, BOOLEAN, BOOLEAN, BOOLEAN)

Init ==
    \/ InitCore
    \/ InitFrom({""}, SchemaTables, {TRUE}, {FALSE}, {FALSE})

InitLink ==
    \/ InitCore
    \/ InitFrom(LinkUrls, {Table(expected_cols \ {"Mobile"}, OneRow)}, {FALSE}, BOOLEAN, {FALSE})

InitNorm ==
    \/ InitCore
    \/ InitFrom({""}, NormTables, {TRUE}, {FALSE}, {FALSE})

InitTime ==
    \/ InitCore
    \/ InitFrom({""}, TimeTables, {TRUE}, {FALSE}, {FALSE})

InitFilter ==
    \/ InitCore
    \/ InitFrom({""}, FilterTables, {TRUE}, {FALSE}, {FALSE})

InitGrowth ==
    \/ InitCore
    \/ InitFrom({""}, GrowthTables, {TRUE}, {FALSE}, {FALSE})

InitDate ==
    \/ InitCore
    \/ InitFrom({""}, DateTables, {TRUE}, {FALSE}, {FALSE})

(***************************************************************************)
(* The run                                                                 *)
(***************************************************************************)
Say(m) == ui' = Append(ui, m)

\* (variant: the checkbox is ignored at the top of the script)
CheckAutoRefreshLate ==
    /\ pc = "top"
    /\ pc' = "load"
    /\ UNCHANGED <<inputs, auto_refresh, locals>>

\* gs 29-35: the auto-refresh checkbox is read first.
CheckAutoRefresh ==
    /\ pc = "top"
    /\ pc' = IF app = "gs" /\ auto_refresh THEN "sleeping" ELSE "load"
    /\ UNCHANGED <<inputs, auto_refresh, locals>>

\* (variant: after the sleep the script goes on instead of starting over)
SleepThenResume ==
    /\ pc = "sleeping"
    /\ pc' = "load"
    /\ UNCHANGED <<inputs, auto_refresh, locals>>

\* gs 34-35: time.sleep(10) returns, st.experimental_rerun() starts the
\* script over; the checkbox holds whatever the user left it at.
SleepThenRerun ==
    /\ pc = "sleeping"
    /\ Restart
    /\ auto_refresh' \in BOOLEAN
    /\ UNCHANGED inputs

\* (variant: the pasted link is tested without strip())
LinkPastedRaw == app = "gs" /\ google_sheet_url # ""

\* gs 104: google_sheet_url.strip() != ""  (el-graph.py has no link input)
LinkPasted == app = "gs" /\ Strip(google_sheet_url) # ""

\* gs 97-103, graph 23-25
LoadUploaded ==
    /\ pc = "load"
    /\ uploaded_file
    /\ reads' = Append(reads, "uploaded")
    /\ \E ok \in BOOLEAN :
          IF ok
          THEN /\ df' = Some(source_data)
               /\ Say("success:uploaded")
               /\ pc' = "validate"
          ELSE /\ df' = df
               /\ IF app = "gs"
                  THEN Say("error:upload_read_failed") /\ pc' = "stopped"
                  ELSE ui' = ui /\ pc' = "crashed"
    /\ UNCHANGED <<inputs, auto_refresh, csv_url, missing, found_times, opts, sel, fdf,
                   growth, offered>>

\* (variant: when the fetch fails and the default file exists, the default
\* file is read instead)
LoadGoogleSheetFallsBack ==
    /\ pc = "load"
    /\ ~uploaded_file
    /\ LinkPasted
    /\ LET r == ResolveLink(google_sheet_url) IN
       /\ csv_url' = r.csv_url
       /\ IF r.step = "fetch"
          THEN \E ok \in BOOLEAN :
                  IF ok
                  THEN /\ reads' = Append(reads, "sheet")
                       /\ df' = Some(source_data) /\ Say("success:sheet") /\ pc' = "validate"
                  ELSE IF default_exists
                  THEN /\ reads' = reads \o <<"sheet", "default">>
                       /\ df' = Some(source_data)
                       /\ ui' = ui \o <<"error:sheet_load_failed", "info:default_loaded">>
                       /\ pc' = "validate"
                  ELSE /\ reads' = Append(reads, "sheet")
                       /\ df' = df /\ Say("error:sheet_load_failed") /\ pc' = "stopped"
          ELSE /\ reads' = reads
               /\ df' = df
               /\ pc' = "stopped"
               /\ IF r.step = "not_google" THEN Say("error:not_google_url")
                  ELSE IF r.step = "no_csv" THEN Say("error:no_csv_url")
                  ELSE ui' = ui
    /\ UNCHANGED <<inputs, auto_refresh, missing, found_times, opts, sel, fdf, growth, offered>>

\* gs 104-109 with load_google_sheet_as_df (45-93)
LoadGoogleSheet ==
    /\ pc = "load"
    /\ ~uploaded_file
    /\ LinkPasted
    /\ LET r == ResolveLink(google_sheet_url) IN
       /\ csv_url' = r.csv_url
       /\ IF r.step = "fetch"
          THEN /\ reads' = Append(reads, "sheet")
               /\ \E ok \in BOOLEAN :
                     IF ok
                     THEN df' = Some(source_data) /\ Say("success:sheet") /\ pc' = "validate"
                     ELSE df' = df /\ Say("error:sheet_load_failed") /\ pc' = "stopped"
          ELSE /\ reads' = reads
               /\ df' = df
               /\ pc' = "stopped"
               /\ IF r.step = "not_google" THEN Say("error:not_google_url")
                  ELSE IF r.step = "no_csv" THEN Say("error:no_csv_url")
                  ELSE ui' = ui
    /\ UNCHANGED <<inputs, auto_refresh, missing, found_times, opts, sel, fdf, growth, offered>>

\* gs 110-116, graph 27-29
LoadDefault ==
    /\ pc = "load"
    /\ ~uploaded_file
    /\ ~LinkPasted
    /\ default_exists
    /\ reads' = Append(reads, "default")
    /\ \E ok \in BOOLEAN :
          IF ok
          THEN /\ df' = Some(source_data)
               /\ Say("info:default_loaded")
               /\ pc' = "validate"
          ELSE /\ df' = df
               /\ IF app = "gs"
                  THEN Say("error:default_read_failed") /\ pc' = "stopped"
                  ELSE ui' = ui /\ pc' = "crashed"
    /\ UNCHANGED <<inputs, auto_refresh, csv_url, missing, found_times, opts, sel, fdf,
                   growth, offered>>

\* gs 117-119, graph 30-32
NoSource ==
    /\ pc = "load"
    /\ ~uploaded_file
    /\ ~LinkPasted
    /\ ~default_exists
    /\ Say("info:no_source")
    /\ pc' = "stopped"
    /\ UNCHANGED <<inputs, auto_refresh, df, reads, csv_url, missing, found_times, opts, sel,
                   fdf, growth, offered>>

\* gs 122-126, graph 36-40
Validate ==
    /\ pc = "validate"
    /\ missing' = MissingCols(df[1].cols)
    /\ IF missing' # {}
       THEN Say("error:missing_columns") /\ pc' = "stopped"
       ELSE ui' = ui /\ pc' = "normalize"
    /\ UNCHANGED <<inputs, auto_refresh, df, reads, csv_url, found_times, opts, sel, fdf,
                   growth, offered>>

\* gs 129-146, graph 43-54
Normalize ==
    /\ pc = "normalize"
    /\ df' = Some(Table(df[1].cols \cup {"Total"}, Normalized(app, df[1].rows)))
    /\ found_times' = Some(FoundTimes(app, TimesOf(df[1].rows)))
    /\ pc' = "sidebar"
    /\ UNCHANGED <<inputs, auto_refresh, reads, csv_url, ui, missing, opts, sel, fdf, growth,
                   offered>>

\* gs 149-169, graph 57-77.  On a table without rows int(df["Male"].min())
\* raises and the run ends there.  The user has moved at most MaxMoved of
\* the seven widgets away from their defaults.
Sidebar ==
    /\ pc = "sidebar"
    /\ LET t == df[1].rows IN
       IF Len(t) = 0
       THEN pc' = "crashed" /\ opts' = opts /\ sel' = sel
       ELSE /\ opts' = Some([team |-> team_opts(t), const |-> const_opts(t),
                             date |-> date_opts(t),
                             time |-> time_opts(app, found_times[1]),
                             male |-> SliderBounds(t, "Male"),
                             female |-> SliderBounds(t, "Female"),
                             trans |-> SliderBounds(t, "Transgender")])
            /\ \E st \in Range(opts'[1].team), sc \in Range(opts'[1].const),
                  sd \in Range(opts'[1].date), sm \in Range(opts'[1].time),
                  rm \in SliderChoices(t, "Male"), rf \in SliderChoices(t, "Female"),
                  rt \in SliderChoices(t, "Transgender") :
                  LET s == [team |-> st, const |-> sc, date |-> sd, time |-> sm,
                            male |-> rm, female |-> rf, trans |-> rt]
                  IN Moved(s, opts'[1]) <= MaxMoved /\ sel' = Some(s)
            /\ pc' = "filter"
    /\ UNCHANGED <<inputs, auto_refresh, df, reads, csv_url, ui, missing, found_times, fdf,
                   growth, offered>>

\* gs 172-173: the Reset Filters button was pressed
ResetFilters ==
    /\ pc = "filter"
    /\ app = "gs"
    /\ Restart
    /\ UNCHANGED <<inputs, auto_refresh>>

\* (variant: the filter narrows df itself instead of a copy)
ApplyFiltersInPlace ==
    /\ pc = "filter"
    /\ fdf' = Some(Filtered(df[1].rows, sel[1]))
    /\ df' = Some(Table(df[1].cols, fdf'[1]))
    /\ pc' = "render"
    /\ UNCHANGED <<inputs, auto_refresh, reads, csv_url, ui, missing, found_times, opts,
                   sel, growth, offered>>

\* gs 176-190, graph 80-94
ApplyFilters ==
    /\ pc = "filter"
    /\ fdf' = Some(Filtered(df[1].rows, sel[1]))
    /\ pc' = "render"
    /\ UNCHANGED <<inputs, auto_refresh, df, reads, csv_url, ui, missing, found_times, opts,
                   sel, growth, offered>>

\* gs 193-330, graph 97-257: the views; the growth table is the one kept.
\* gs 255-257, graph 168-171: when time_const is not empty the constituency
\* selectbox sorts df["Constitution"].unique() without dropna(), and
\* sorted() raises on a blank (a float) next to text.  time_const has a row
\* for every (Time, Constitution) of fdf; with pandas' observed=False it
\* also has one for every category of Time paired with a constituency of
\* fdf, so there the outcome is either.
Render ==
    /\ pc = "render"
    /\ LET all == {df[1].rows[i].Constitution : i \in 1..Len(df[1].rows)}
           f == fdf[1]
           mixed == NaN \in all /\ all # {NaN}
           surely == \E i \in 1..Len(f) : f[i].Time # None /\ f[i].Constitution # NaN
           maybe == Len(found_times[1]) > 0 /\ \E i \in 1..Len(f) : f[i].Constitution # NaN
       IN \E raises \in (IF mixed /\ surely THEN {TRUE}
                          ELSE IF mixed /\ maybe THEN BOOLEAN ELSE {FALSE}) :
             IF raises
             THEN growth' = growth /\ pc' = "crashed"
             ELSE growth' = Some(GrowthTable(f)) /\ pc' = "download"
    /\ UNCHANGED <<inputs, auto_refresh, df, reads, csv_url, ui, missing, found_times, opts,
                   sel, fdf, offered>>

\* (variant: a failed Excel export ends the run)
DownloadHalts ==
    /\ pc = "download"
    /\ \E ok \in BOOLEAN :
          IF ok
          THEN offered' = {"csv", "xlsx"} /\ ui' = ui /\ pc' = "footer"
          ELSE offered' = {"csv"} /\ ui' = ui /\ pc' = "stopped"
    /\ UNCHANGED <<inputs, auto_refresh, df, reads, csv_url, missing, found_times, opts, sel,
                   fdf, growth>>

\* gs 333-348, graph 260-280
Download ==
    /\ pc = "download"
    /\ \E ok \in BOOLEAN :
          IF ok
          THEN offered' = {"csv", "xlsx"} /\ ui' = ui
          ELSE offered' = {"csv"} /\ Say("warning:excel_unavailable")
    /\ pc' = "footer"
    /\ UNCHANGED <<inputs, auto_refresh, df, reads, csv_url, missing, found_times, opts, sel,
                   fdf, growth>>

\* gs 351-352, graph 283-284
Footer ==
    /\ pc = "footer"
    /\ pc' = "done"
    /\ UNCHANGED <<inputs, auto_refresh, locals>>

\* The user touches a widget after the run ended: the script runs again on
\* the same sources.
Interact ==
    /\ pc \in {"done", "stopped", "crashed"}
    /\ Restart
    /\ auto_refresh' \in (IF app = "gs" THEN BOOLEAN ELSE {FALSE})
    /\ UNCHANGED inputs

Next ==
    \/ CheckAutoRefresh
    \/ SleepThenRerun
    \/ LoadUploaded
    \/ LoadGoogleSheet
    \/ LoadDefault
    \/ NoSource
    \/ Validate
    \/ Normalize
    \/ Sidebar
    \/ ResetFilters
    \/ ApplyFilters
    \/ Render
    \/ Download
    \/ Footer
    \/ Interact

Spec == Init /\ [][Next]_vars

SpecLink == InitLink /\ [][Next]_vars

SpecNorm == InitNorm /\ [][Next]_vars

SpecTime == InitTime /\ [][Next]_vars

SpecFilter == InitFilter /\ [][Next]_vars

SpecGrowth == InitGrowth /\ [][Next]_vars

SpecDate == InitDate /\ [][Next]_vars

\* The script runs top to bottom: once the download tab is reached its
\* statements and the footer's are executed.
SpecLive == Init /\ [][Next]_vars /\ WF_vars(Download) /\ WF_vars(Footer)

(***************************************************************************)
(* Properties                                                              *)
(***************************************************************************)
Canonical == {"09:00", "11:00", "13:00", "15:00", "17:00", "18:00"}

\* The run is past the load stage.
PastLoad == pc \notin {"top", "sleeping", "load"}

\* A source is available: a file in the uploader, a non-blank pasted link,
\* the fallback file on disk.
Available(src) ==
    CASE src = "uploaded" -> uploaded_file
      [] src = "sheet" -> Strip(google_sheet_url) # ""
      [] src = "default" -> default_exists

\* The source the precedence uploaded > link > fallback picks, or "none".
Chosen ==
    IF Available("uploaded") THEN "uploaded"
    ELSE IF Available("sheet") THEN "sheet"
    ELSE IF Available("default") THEN "default"
    ELSE "none"

\* The source a message on the screen is about.
MsgSource(m) ==
    CASE m \in {"success:uploaded", "error:upload_read_failed"} -> "uploaded"
      [] m \in {"success:sheet", "error:sheet_load_failed", "error:not_google_url",
                "error:no_csv_url"} -> "sheet"
      [] m \in {"info:default_loaded", "error:default_read_failed"} -> "default"
      [] OTHER -> "none"

\* The sources the run turned to: those it read and those it reported on.
TurnedTo == (Range(reads) \cup {MsgSource(ui[i]) : i \in 1..Len(ui)}) \ {"none"}

NothingDownstream ==
    /\ missing = {} /\ found_times = None /\ opts = None /\ sel = None
    /\ fdf = None /\ growth = None /\ offered = {}

\* C1: once a run is past the load stage it has turned to exactly one
\* source, the one the precedence uploaded file > pasted link > fallback
\* path picks among those available; it has read no other source, a loaded
\* table was read from that source; and when none of the three is available
\* the run shows the no-source message and stops with nothing validated,
\* normalized, filtered or rendered.
C1_SourcePrecedence ==
    PastLoad =>
        /\ Len(reads) <= 1
        /\ Range(reads) \subseteq {Chosen}
        /\ Chosen # "none" => TurnedTo = {Chosen}
        /\ df # None => reads = <<Chosen>>
        /\ Chosen = "none" =>
              /\ pc = "stopped" /\ ui = <<"info:no_source">>
              /\ reads = <<>> /\ df = None /\ NothingDownstream
        /\ "info:no_source" \in Range(ui) => Chosen = "none"

\* All three sources are available and the run read the uploaded file only.
C1_Witness ==
    /\ uploaded_file /\ Strip(google_sheet_url) # "" /\ default_exists
    /\ pc = "validate" /\ reads = <<"uploaded">>

\* C2 (as stated): after normalization every row has
\* Total = Male + Female + Transgender and Male, Female, Transgender are
\* integers >= 0, whatever the source cells held.
C2_CountsNonNegative ==
    (found_times # None) =>
        \A i \in 1..Len(df[1].rows) :
            LET r == df[1].rows[i] IN
            /\ r.Total = r.Male + r.Female + r.Transgender
            /\ r.Male \in Nat /\ r.Female \in Nat /\ r.Transgender \in Nat

\* C3: once a loaded table is validated, the set reported missing is exactly
\* the required columns the table lacks; when it is not empty the run has
\* stopped on the missing-columns error with the table as loaded and nothing
\* normalized, filtered, rendered or offered; a table with all nine columns
\* passes.
C3_SchemaValidation ==
    (PastLoad /\ pc # "validate" /\ df # None) =>
        LET absent == {c \in expected_cols : c \notin source_data.cols} IN
        /\ \A c \in expected_cols \cup source_data.cols : c \in missing <=> c \in absent
        /\ missing \subseteq expected_cols
        /\ absent # {} =>
              /\ pc = "stopped" /\ Last(ui) = "error:missing_columns"
              /\ df = Some(source_data)
              /\ found_times = None /\ opts = None /\ sel = None
              /\ fdf = None /\ growth = None /\ offered = {}
        /\ absent = {} => pc # "stopped" /\ "error:missing_columns" \notin Range(ui)

\* A table with an extra column that lacks two or more required ones was
\* rejected.
C3_Witness ==
    /\ pc = "stopped" /\ Cardinality(missing) >= 2
    /\ "Remarks" \in source_data.cols
    /\ Last(ui) = "error:missing_columns"

\* The stripped Time strings of the loaded rows.
PresentTimes == {TimeStr(source_data.rows[i].Time) : i \in 1..Len(source_data.rows)}

ResolvedOrder ==
    IF PresentTimes \cap Canonical # {} THEN SelectIn(time_order, PresentTimes)
    ELSE SortedStrs(PresentTimes)

\* C4 (as stated): the resolved time order is the canonical list restricted
\* to the values present, or the sorted distinct values when no canonical
\* value is present, and the Time filter offers "All" followed by it.
C4_TimeOrder ==
    (opts # None) =>
        /\ found_times[1] = ResolvedOrder
        /\ opts[1].time = <<"All">> \o ResolvedOrder

\* C5 (as stated): a row whose Time is text outside the canonical slots
\* keeps its trimmed Time value in the cleaned table, and the value has a
\* place in the resolved order.
C5_UnrecognizedTimesKept ==
    (found_times # None) =>
        \A i \in 1..Len(source_data.rows) :
            LET c == source_data.rows[i].Time IN
            (c.k = "str" /\ Strip(c.s) \notin Canonical) =>
                /\ df[1].rows[i].Time = Some(Strip(c.s))
                /\ Strip(c.s) \in Range(found_times[1])

\* A row satisfies the selection: every selector that is not "All" matches,
\* and each count lies in its range, end points included.
Satisfies(r, s) ==
    /\ (s.team # All => r.TeamNumber = s.team)
    /\ (s.const # All => r.Constitution = s.const)
    /\ (s.date # "All" => (r.Date # None /\ DateStr(r.Date) = s.date))
    /\ (s.time # "All" => r.Time = Some(s.time))
    /\ s.male[1] <= r.Male /\ r.Male <= s.male[2]
    /\ s.female[1] <= r.Female /\ r.Female <= s.female[2]
    /\ s.trans[1] <= r.Transgender /\ r.Transgender <= s.trans[2]

\* q is t with some rows left out: an increasing choice of positions of t.
IsNarrowing(q, t) ==
    \E I \in SUBSET (1..Len(t)) :
        /\ Cardinality(I) = Len(q)
        /\ \A j \in 1..Len(q) :
              q[j] = t[CHOOSE i \in I : Cardinality({h \in I : h < i}) = j - 1]

AllSelected(s) ==
    /\ s.team = All /\ s.const = All /\ s.date = "All" /\ s.time = "All"

\* C6: the filtered table is the cleaned table with rows left out; every
\* row of it satisfies every selected predicate; and with the four
\* selectors on "All" and the three ranges at the observed min and max it is
\* the cleaned table itself.
C6_FilterNarrows ==
    (fdf # None) =>
        LET t == df[1].rows
            s == sel[1]
        IN /\ IsNarrowing(fdf[1], t)
           /\ \A j \in 1..Len(fdf[1]) : Satisfies(fdf[1][j], s)
           /\ ( /\ AllSelected(s)
                /\ \A i \in 1..Len(t) :
                      /\ s.male[1] <= t[i].Male /\ t[i].Male <= s.male[2]
                      /\ s.female[1] <= t[i].Female /\ t[i].Female <= s.female[2]
                      /\ s.trans[1] <= t[i].Transgender /\ t[i].Transgender <= s.trans[2] )
              => fdf[1] = t

\* Two predicates were selected and the filter kept some rows and dropped
\* others.
C6_Witness ==
    /\ fdf # None
    /\ sel[1].team # All /\ sel[1].male # opts[1].male
    /\ Len(fdf[1]) > 0 /\ Len(fdf[1]) < Len(df[1].rows)

\* The cleaned table of the loaded rows.
Cleaned == Normalized(app, source_data.rows)

\* C7: whatever is selected, before and after the filter is applied, the
\* cleaned table is the one normalization produced, and the options of the
\* team, constituency, date and time controls and the slider bounds are
\* those of that unfiltered table.
C7_OptionsIndependent ==
    (opts # None) =>
        LET o == opts[1]
            c == Cleaned
            n == Len(c)
            males == {c[i].Male : i \in 1..n}
            females == {c[i].Female : i \in 1..n}
            transes == {c[i].Transgender : i \in 1..n}
        IN /\ df[1].rows = c
           /\ Range(o.team) = {All} \cup ({c[i].TeamNumber : i \in 1..n} \ {NaN})
           /\ Range(o.const) = {All} \cup ({c[i].Constitution : i \in 1..n} \ {NaN})
           /\ Range(o.date) =
                 {"All"} \cup {DateStr(c[i].Date) : i \in {j \in 1..n : c[j].Date # None}}
           /\ Range(o.time) = {"All"} \cup Range(found_times[1])
           /\ o.male[1] \in males /\ \A v \in males : o.male[1] <= v
           /\ o.male[2] \in males /\ \A v \in males : v <= o.male[2]
           /\ o.female[1] \in females /\ \A v \in females : o.female[1] <= v
           /\ o.female[2] \in females /\ \A v \in females : v <= o.female[2]
           /\ o.trans[1] \in transes /\ \A v \in transes : o.trans[1] <= v
           /\ o.trans[2] \in transes /\ \A v \in transes : v <= o.trans[2]

\* A team is selected, the filter dropped a constituency's rows, and that
\* constituency is still offered.
C7_Witness ==
    /\ fdf # None /\ sel[1].team # All
    /\ \E c \in Range(opts[1].const) \ {All} :
          \A j \in 1..Len(fdf[1]) : fdf[1][j].Constitution # c

\* The sum of Total over the rows of t of constituency c in a slot.
RECURSIVE SumOver(_, _)
SumOver(t, I) ==
    IF I = {} THEN 0
    ELSE LET i == CHOOSE j \in I : TRUE IN t[i].Total + SumOver(t, I \ {i})

SlotTotal(t, c, slot) ==
    SumOver(t, {i \in 1..Len(t) : t[i].Constitution = c /\ t[i].Time = Some(slot)})

\* C8: the growth table has one entry for each constituency with a row of
\* the filtered table in slot 17:00 or 18:00 and no other entry; T_17 and
\* T_18 are the sums of Total over its rows in the slot (0 without rows),
\* Growth = T_18 - T_17, and the entries are in descending order of Growth.
C8_Growth ==
    (growth # None) =>
        LET g == growth[1]
            f == fdf[1]
            keys == {f[i].Constitution :
                        i \in {j \in 1..Len(f) : f[j].Time \in {Some("17:00"), Some("18:00")}}}
                    \ {NaN}
        IN /\ {g[i].Constitution : i \in 1..Len(g)} = keys
           /\ Len(g) = Cardinality(keys)
           /\ \A i \in 1..Len(g) :
                 /\ g[i].T_17 = SlotTotal(f, g[i].Constitution, "17:00")
                 /\ g[i].T_18 = SlotTotal(f, g[i].Constitution, "18:00")
                 /\ g[i].Growth = g[i].T_18 - g[i].T_17
           /\ \A i \in 1..(Len(g) - 1) : g[i].Growth >= g[i + 1].Growth

\* The example: X has 10 at 17:00 and nothing at 18:00, Y has 5 at 17:00 and
\* 12 at 18:00; the table is Y (5, 12, +7) then X (10, 0, -10).
C8_Witness ==
    /\ growth # None
    /\ Len(fdf[1]) = 3
    /\ fdf[1][1].Constitution = Str("X") /\ fdf[1][1].Time = Some("17:00")
    /\ growth[1] = << [Constitution |-> Str("Y"), T_17 |-> 5, T_18 |-> 12, Growth |-> 7],
                      [Constitution |-> Str("X"), T_17 |-> 10, T_18 |-> 0, Growth |-> -10] >>

\* The pasted link as the function sees it, and whether the run took the
\* link branch.
Link == Strip(google_sheet_url)

LinkRun == PastLoad /\ app = "gs" /\ ~uploaded_file /\ Link # ""

\* The positions at which sub occurs in s.
Occurs(s, sub) == {i \in 1..(Len(s) - Len(sub) + 1) : SubSeq(s, i, i + Len(sub) - 1) = sub}

\* The longest piece of s from position i on that has no character c.
UpTo(s, i, c) ==
    LET stop == {j \in i..Len(s) : Char(s, j) = c}
        e == IF stop = {} THEN Len(s) ELSE SetMin(stop) - 1
    IN SubSeq(s, i, e)

\* The identifier after the first marker, up to the next "/" or the end.
LinkId == UpTo(Link, SetMin(Occurs(Link, SheetMarker)) + Len(SheetMarker), "/")

\* The tab id after the last "gid=", up to the next "&" or the end ("" when
\* there is no "gid=").
LinkGid ==
    IF Occurs(Link, "gid=") = {} THEN ""
    ELSE UpTo(Link, SetMax(Occurs(Link, "gid=")) + 4, "&")

ExportUrl ==
    IF LinkGid # ""
    THEN "https://docs.google.com/spreadsheets/d/" \o LinkId \o "/export?format=csv&gid=" \o LinkGid
    ELSE "https://docs.google.com/spreadsheets/d/" \o LinkId \o "/export?format=csv"

\* C9 (as stated): for every pasted URL that contains "/spreadsheets/d/"
\* the export URL is built from the identifier and the tab id.
C9_ExportUrlForEveryMarkedUrl ==
    (LinkRun /\ Occurs(Link, SheetMarker) # {}) => csv_url = Some(ExportUrl)

\* C9 (amended): for every pasted URL that contains "docs.google.com" and
\* "/spreadsheets/d/" the export URL is
\* https://docs.google.com/spreadsheets/d/<id>/export?format=csv, followed
\* by &gid=<gid> when the text after the last "gid=" up to the next "&" is
\* not empty, <id> being the text after the first marker up to the next "/"
\* (or the end of the URL); a URL without "docs.google.com" gets no export
\* URL.
C9_ExportUrl ==
    LinkRun =>
        /\ (Occurs(Link, SheetMarker) # {} /\ Occurs(Link, "docs.google.com") # {})
              => csv_url = Some(ExportUrl)
        /\ Occurs(Link, "docs.google.com") = {} => csv_url = None

\* The example: .../d/ABC123/edit#gid=55 gave identifier ABC123 and gid 55.
C9_Witness ==
    /\ LinkRun
    /\ Link = "https://docs.google.com/spreadsheets/d/ABC123/edit#gid=55"
    /\ csv_url = Some("https://docs.google.com/spreadsheets/d/ABC123/export?format=csv&gid=55")
    /\ reads = <<"sheet">>

\* C10 (as stated): a non-blank pasted link without "/spreadsheets/d/" is
\* rejected: no export URL is built, no fetch is attempted, no table is
\* returned and the run halts.
C10_InvalidLinkRejected ==
    (LinkRun /\ Occurs(Link, SheetMarker) = {}) =>
        /\ csv_url = None /\ reads = <<>> /\ df = None /\ pc = "stopped"

\* The messages of the terminal errors: no source, a link that is not
\* accepted, a failed fetch, a failed read of the uploaded or default file,
\* a failed validation.
TerminalMsgs ==
    { "info:no_source", "error:not_google_url", "error:no_csv_url",
      "error:sheet_load_failed", "error:upload_read_failed",
      "error:default_read_failed", "error:missing_columns" }

LoadFailedMsgs == TerminalMsgs \ {"error:missing_columns"}

\* A terminal error occurred in the run: one of its messages is shown, or
\* (el-graph.py, which catches nothing) the read raised and left no table.
TerminalError ==
    \/ \E i \in 1..Len(ui) : ui[i] \in TerminalMsgs
    \/ pc = "crashed" /\ df = None

\* No stage after validation has run: nothing normalized, no options, no
\* selection, nothing filtered, rendered or offered for download.
NoLaterStage ==
    /\ found_times = None /\ opts = None /\ sel = None
    /\ fdf = None /\ growth = None /\ offered = {}
    /\ df \in {None, Some(source_data)}

\* C11: once a terminal error occurred the run has ended there: no later
\* stage has run, the one source the precedence picks was tried at most
\* once and no other source was read, a failed load left no table; and the
\* only step that follows starts a new run from the top.
C11_TerminalErrorStopsRun ==
    /\ [](TerminalError =>
            /\ pc \in {"stopped", "crashed"}
            /\ NoLaterStage
            /\ Len(reads) <= 1 /\ Range(reads) \subseteq {Chosen}
            /\ Cardinality({i \in 1..Len(ui) : ui[i] \in TerminalMsgs}) <= 1
            /\ (pc = "crashed" \/ \E i \in 1..Len(ui) : ui[i] \in LoadFailedMsgs) => df = None)
    /\ [][TerminalError => RunStart']_vars

\* The fetch of the pasted link failed while the default file exists: the
\* run stopped with the link read once and the default file untouched.
C11_Witness ==
    /\ pc = "stopped" /\ ui = <<"error:sheet_load_failed">>
    /\ default_exists /\ reads = <<"sheet">> /\ df = None

ExcelWarned == "warning:excel_unavailable" \in Range(ui)

\* C12: the download tab always leaves the CSV button and goes on to the
\* footer (the preview is the tab's last statement); the Excel button is
\* missing exactly when the warning is shown; and a run that reaches the
\* download tab reaches the end of the script.
C12_ExportFailureNonFatal ==
    /\ [](pc \in {"footer", "done"} =>
            /\ "csv" \in offered
            /\ ExcelWarned <=> "xlsx" \notin offered)
    /\ [][pc = "download" => (pc' = "footer" /\ "csv" \in offered')]_vars
    /\ (pc = "download" ~> pc = "done")

\* The Excel export failed and the run ended after the footer with the CSV
\* button alone.
C12_Witness ==
    /\ pc = "done" /\ offered = {"csv"} /\ ExcelWarned /\ fdf # None

\* The positions of the loaded rows whose Date cell cannot be read.
BadDateAt == {i \in 1..Len(source_data.rows) : source_data.rows[i].Date \in BadDateCells}

\* C13: once the table is normalized it has a row for every loaded row; a
\* row whose Date cell cannot be read has a null date and its other fields
\* normalized as those of any row; the date options hold no null date, only
\* the dates of rows that have one; and with the date filter on "All" such a
\* row is in the filtered table exactly when it satisfies the other
\* predicates.
C13_DateParseFailureKeepsRow ==
    (found_times # None) =>
        LET raw == source_data.rows
            c == df[1].rows
        IN /\ Len(c) = Len(raw)
           /\ \A i \in BadDateAt :
                 /\ c[i].Date = None
                 /\ c[i].Male = CoerceCount(raw[i].Male)
                 /\ c[i].Female = CoerceCount(raw[i].Female)
                 /\ c[i].Transgender = CoerceCount(raw[i].Transgender)
                 /\ c[i].Total = c[i].Male + c[i].Female + c[i].Transgender
                 /\ c[i].Time = AsCategory(TimeStr(raw[i].Time), found_times[1])
                 /\ c[i].TeamNumber = raw[i].TeamNumber
                 /\ c[i].Constitution = raw[i].Constitution
           /\ (opts # None) =>
                 /\ "NaT" \notin Range(opts[1].date)
                 /\ \A j \in 2..Len(opts[1].date) :
                       \E i \in (1..Len(c)) \ BadDateAt :
                          c[i].Date # None /\ opts[1].date[j] = DateStr(c[i].Date)
           /\ (fdf # None /\ sel[1].date = "All") =>
                 \A i \in BadDateAt : (c[i] \in Range(fdf[1])) <=> Satisfies(c[i], sel[1])

\* A table with a dated row and a row whose date is "not a date"; the date
\* filter is on "All", a team is selected, and the undated row is kept.
C13_Witness ==
    /\ fdf # None /\ sel[1].date = "All" /\ sel[1].team # All
    /\ Len(opts[1].date) > 1
    /\ \E i \in BadDateAt :
          /\ source_data.rows[i].Date = Str("not a date")
          /\ df[1].rows[i] \in Range(fdf[1])

\* The places a run stops executing at: the rerun after the sleep, the
\* rerun of the Reset Filters button, the end of the script, st.stop(), an
\* exception.
RerunPoints == {"sleeping", "filter", "done", "stopped", "crashed"}

\* Nothing of a run is left: no table, no read, no message, no options.
NothingOfARun ==
    /\ df = None /\ reads = <<>> /\ csv_url = None /\ ui = <<>>
    /\ NothingDownstream

\* C14: with the checkbox set the run goes from the top of the script into
\* the sleep and does nothing else; the one step out of the sleep starts
\* the script over from the top on the same sources; a run starts only
\* where the run before it stopped executing, and it starts with no table
\* and no other state of that run.
C14_AutoRefreshBlocksThenRestarts ==
    /\ [][(pc = "top" /\ app = "gs" /\ auto_refresh) =>
             (pc' = "sleeping" /\ UNCHANGED locals)]_vars
    /\ [](pc = "sleeping" => (app = "gs" /\ auto_refresh /\ NothingOfARun))
    /\ [][pc = "sleeping" => (RunStart' /\ UNCHANGED inputs)]_vars
    /\ [][pc' = "top" => (pc \in RerunPoints /\ RunStart')]_vars

\* The run is blocked in the sleep.
C14_Witness == app = "gs" /\ auto_refresh /\ pc = "sleeping"

\* C15: in el-google-spreadsheet.py a run with the checkbox set is at the
\* top of the script or in the sleep, with no source read and nothing
\* loaded, validated, filtered, rendered or offered; from one run with the
\* checkbox set to the next with it set the load stage is not reached; and
\* a cleaned table exists only in a run with the checkbox clear.
C15_AutoRefreshPreemptsLoad ==
    /\ []((app = "gs" /\ auto_refresh) => (pc \in {"top", "sleeping"} /\ NothingOfARun))
    /\ [][(auto_refresh /\ auto_refresh') => pc' \in {"top", "sleeping"}]_vars
    /\ []((found_times # None \/ df # None) => ~auto_refresh)

\* All three sources are available, and the run is in the sleep with none of
\* them read.
C15_Witness ==
    /\ app = "gs" /\ auto_refresh /\ pc = "sleeping"
    /\ uploaded_file /\ Strip(google_sheet_url) # "" /\ default_exists
    /\ reads = <<>> /\ df = None

====
